---------------------------- MODULE Spec2Model ----------------------------
(***************************************************************************)
(* Model of src/emoji-replacements.py: the script reads script.js, applies *)
(* the generic replacement table, four re.sub rules for the gear symbol    *)
(* and a catch-all for what is left of it, writes the file back and prints *)
(* a report.                                                               *)
(*                                                                         *)
(* Text is a sequence of Unicode code points (Python str), the file on     *)
(* disk a sequence of bytes.                                               *)
(***************************************************************************)
EXTENDS Integers, Sequences, FiniteSets, TLC

\* Bounds of the model: pieces per input document, bytes that reach the disk
\* before a failing write gives up.
MaxPieces == 3
MaxPartialWrite == 1

----------------------------------------------------------------------------
(* str.count, str.replace                                                  *)

\* p occurs in s at index i (i + Len(p) - 1 <= Len(s)).
MatchAt(s, p, i) ==
    /\ s[i] = p[1]
    /\ \A k \in 2..Len(p) : s[i + k - 1] = p[k]

\* Index of the leftmost occurrence of p in s at or after i, 0 if none.
Find(s, p, i) ==
    LET M == {j \in i..(Len(s) - Len(p) + 1) : MatchAt(s, p, j)}
    IN  IF M = {} THEN 0 ELSE CHOOSE j \in M : \A k \in M : j <= k

RECURSIVE CountFrom(_, _, _)
CountFrom(s, p, i) ==
    LET j == Find(s, p, i)
    IN  IF j = 0 THEN 0 ELSE 1 + CountFrom(s, p, j + Len(p))

\* s.count(p): the number of non-overlapping occurrences, leftmost first.
Count(s, p) == CountFrom(s, p, 1)

RECURSIVE ReplaceFrom(_, _, _, _)
ReplaceFrom(s, p, r, i) ==
    LET j == Find(s, p, i)
    IN  IF j = 0 THEN SubSeq(s, i, Len(s))
        ELSE SubSeq(s, i, j - 1) \o r \o ReplaceFrom(s, p, r, j + Len(p))

\* A replace that stops after the first occurrence, as s.replace(p, r, 1).
ReplaceFirstOnly(s, p, r) ==
    LET j == Find(s, p, 1)
    IN  IF j = 0 THEN s
        ELSE SubSeq(s, 1, j - 1) \o r \o SubSeq(s, j + Len(p), Len(s))

\* s.replace(p, r): every non-overlapping occurrence, leftmost first.
Replace(s, p, r) == ReplaceFrom(s, p, r, 1)

----------------------------------------------------------------------------
(* re.sub with the patterns and templates of the script                    *)

\* Index of the first backslash of t at or after i, 0 if none.
NextBackslash(t, i) ==
    LET B == {j \in i..Len(t) : t[j] = 92}
    IN  IF B = {} THEN 0 ELSE CHOOSE j \in B : \A k \in B : j <= k

\* The literal a pattern of the script matches: a backslash before a
\* non-alphanumeric character makes that character literal (the patterns
\* hold no other metacharacter and no backslash before a letter or digit).
RECURSIVE PatternFrom(_, _)
PatternFrom(p, i) ==
    LET j == NextBackslash(p, i)
    IN  IF j = 0 \/ j = Len(p) THEN SubSeq(p, i, Len(p))
        ELSE SubSeq(p, i, j - 1) \o <<p[j + 1]>> \o PatternFrom(p, j + 2)

PatternLiteral(p) == PatternFrom(p, 1)

\* The text a replacement template inserts (re's parse_template): "\\" is
\* one backslash; a backslash before any other non-alphanumeric character
\* is left alone, so both characters are inserted. The templates of the
\* script hold no group reference and no backslash before a letter or digit.
RECURSIVE TemplateFrom(_, _)
TemplateFrom(t, i) ==
    LET j == NextBackslash(t, i)
    IN  IF j = 0 \/ j = Len(t) THEN SubSeq(t, i, Len(t))
        ELSE SubSeq(t, i, j - 1)
             \o (IF t[j + 1] = 92 THEN <<92>> ELSE <<92, t[j + 1]>>)
             \o TemplateFrom(t, j + 2)

ExpandTemplate(t) == TemplateFrom(t, 1)

\* re.sub(pattern, template, s)
ReSub(pattern, template, s) ==
    Replace(s, PatternLiteral(pattern), ExpandTemplate(template))

----------------------------------------------------------------------------
(* open(..., encoding='utf-8'): UTF-8 and universal newlines               *)

Utf8Encode(cp) ==
    IF cp < 128 THEN <<cp>>
    ELSE IF cp < 2048 THEN <<192 + (cp \div 64), 128 + (cp % 64)>>
    ELSE IF cp < 65536
         THEN <<224 + (cp \div 4096), 128 + ((cp \div 64) % 64), 128 + (cp % 64)>>
         ELSE <<240 + (cp \div 262144), 128 + ((cp \div 4096) % 64),
                128 + ((cp \div 64) % 64), 128 + (cp % 64)>>

RECURSIVE EncodeRange(_, _, _)
EncodeRange(s, lo, hi) ==
    IF lo > hi THEN <<>>
    ELSE IF lo = hi THEN Utf8Encode(s[lo])
    ELSE LET mid == (lo + hi) \div 2
         IN  EncodeRange(s, lo, mid) \o EncodeRange(s, mid + 1, hi)

\* s.encode('utf-8')
Encode(s) == EncodeRange(s, 1, Len(s))

IsCont(b) == b \in 128..191

\* Length of the sequence a lead byte opens, 0 for a byte that opens none.
SeqLen(b) ==
    IF b < 128 THEN 1
    ELSE IF b \in 194..223 THEN 2
    ELSE IF b \in 224..239 THEN 3
    ELSE IF b \in 240..244 THEN 4
    ELSE 0

\* The code point of the sequence that starts at byte i.
CodePointAt(b, i) ==
    LET n == SeqLen(b[i])
    IN  IF n = 1 THEN b[i]
        ELSE IF n = 2 THEN (b[i] - 192) * 64 + (b[i + 1] - 128)
        ELSE IF n = 3
             THEN (b[i] - 224) * 4096 + (b[i + 1] - 128) * 64 + (b[i + 2] - 128)
             ELSE (b[i] - 240) * 262144 + (b[i + 1] - 128) * 4096
                  + (b[i + 2] - 128) * 64 + (b[i + 3] - 128)

\* The strict decoder accepts the sequence at i: complete, continuation
\* bytes in place, not overlong, no surrogate, at most U+10FFFF.
ValidSeqAt(b, i) ==
    LET n == SeqLen(b[i])
    IN  /\ n > 0
        /\ i + n - 1 <= Len(b)
        /\ \A k \in 1..(n - 1) : IsCont(b[i + k])
        /\ LET cp == CodePointAt(b, i)
           IN  /\ n = 3 => cp >= 2048
               /\ n = 4 => cp >= 65536
               /\ cp \notin 55296..57343
               /\ cp <= 1114111

\* A continuation byte belongs to the sequence opened before it.
CoveredAt(b, i) ==
    \E d \in 1..3 :
        /\ i - d >= 1
        /\ ~IsCont(b[i - d])
        /\ SeqLen(b[i - d]) > d
        /\ \A k \in 1..(d - 1) : IsCont(b[i - k])

\* The bytes decode as UTF-8 (no UnicodeDecodeError).
Decodable(b) ==
    {i \in 1..Len(b) : ~(IF IsCont(b[i]) THEN CoveredAt(b, i) ELSE ValidSeqAt(b, i))} = {}

RECURSIVE DecodeRange(_, _, _)
DecodeRange(b, lo, hi) ==
    IF lo > hi THEN <<>>
    ELSE IF lo = hi THEN (IF IsCont(b[lo]) THEN <<>> ELSE <<CodePointAt(b, lo)>>)
    ELSE LET mid == (lo + hi) \div 2
         IN  DecodeRange(b, lo, mid) \o DecodeRange(b, mid + 1, hi)

\* bytes.decode('utf-8') of decodable bytes
Decode(b) == DecodeRange(b, 1, Len(b))

\* newline=None on reading: "\r\n" and "\r" become "\n".
TranslateNewlines(s) == Replace(Replace(s, <<13, 10>>, <<10>>), <<13>>, <<10>>)

\* f.read() of a file opened in text mode
ReadText(b) == TranslateNewlines(Decode(b))

\* f.write(s) in text mode on POSIX: "\n" is written as it is.
WriteText(s) == Encode(s)

----------------------------------------------------------------------------
(* The replacement table, lines 19-70                                      *)

\* '<img src="'
ImgOpen == <<60, 105, 109, 103, 32, 115, 114, 99, 61, 34>>
\* '" alt="" width="'
ImgAlt == <<34, 32, 97, 108, 116, 61, 34, 34, 32, 119, 105, 100, 116, 104, 61, 34>>
\* '" height="'
ImgHeight == <<34, 32, 104, 101, 105, 103, 104, 116, 61, 34>>
\* '" style="vertical-align: middle;">'
ImgStyle == <<34, 32, 115, 116, 121, 108, 101, 61, 34, 118, 101, 114, 116, 105, 99, 97, 108, 45,
    97, 108, 105, 103, 110, 58, 32, 109, 105, 100, 100, 108, 101, 59, 34, 62>>

\* '<img src="PATH" alt="" width="W" height="W" style="vertical-align: middle;">'
ImgTag(path, w) == ImgOpen \o path \o ImgAlt \o w \o ImgHeight \o w \o ImgStyle

replacements == <<
    \* line 21: U+1F517 -> 'icons/misc/link.svg', width/height 14
        << <<128279>>, ImgTag(<<105, 99, 111, 110, 115, 47, 109, 105, 115, 99, 47, 108, 105,
        110, 107, 46, 115, 118, 103>>, <<49, 52>>) >>,
    \* line 23: U+1F4CC -> 'icons/status/pin.svg', width/height 14
        << <<128204>>, ImgTag(<<105, 99, 111, 110, 115, 47, 115, 116, 97, 116, 117, 115, 47,
        112, 105, 110, 46, 115, 118, 103>>, <<49, 52>>) >>,
    \* line 25: U+1F4BE -> 'icons/actions/save.svg', width/height 14
        << <<128190>>, ImgTag(<<105, 99, 111, 110, 115, 47, 97, 99, 116, 105, 111, 110, 115, 47,
        115, 97, 118, 101, 46, 115, 118, 103>>, <<49, 52>>) >>,
    \* line 27: U+1F4E5 -> 'icons/actions/download.svg', width/height 14
        << <<128229>>, ImgTag(<<105, 99, 111, 110, 115, 47, 97, 99, 116, 105, 111, 110, 115, 47,
        100, 111, 119, 110, 108, 111, 97, 100, 46, 115, 118, 103>>, <<49, 52>>) >>,
    \* line 29: U+1F4CA -> 'icons/misc/chart-line-up.svg', width/height 14
        << <<128202>>, ImgTag(<<105, 99, 111, 110, 115, 47, 109, 105, 115, 99, 47, 99, 104, 97,
        114, 116, 45, 108, 105, 110, 101, 45, 117, 112, 46, 115, 118, 103>>, <<49, 52>>) >>,
    \* line 30: U+1F4C8 -> 'icons/misc/chart-line-up.svg', width/height 14
        << <<128200>>, ImgTag(<<105, 99, 111, 110, 115, 47, 109, 105, 115, 99, 47, 99, 104, 97,
        114, 116, 45, 108, 105, 110, 101, 45, 117, 112, 46, 115, 118, 103>>, <<49, 52>>) >>,
    \* line 31: U+1F4C9 -> 'icons/misc/chart-line-down.svg', width/height 14
        << <<128201>>, ImgTag(<<105, 99, 111, 110, 115, 47, 109, 105, 115, 99, 47, 99, 104, 97,
        114, 116, 45, 108, 105, 110, 101, 45, 100, 111, 119, 110, 46, 115, 118, 103>>, <<49,
        52>>) >>,
    \* line 33: U+1F4A1 -> 'icons/misc/lightbulb.svg', width/height 14
        << <<128161>>, ImgTag(<<105, 99, 111, 110, 115, 47, 109, 105, 115, 99, 47, 108, 105,
        103, 104, 116, 98, 117, 108, 98, 46, 115, 118, 103>>, <<49, 52>>) >>,
    \* line 35: U+1F4C2 -> 'icons/misc/folder.svg', width/height 14
        << <<128194>>, ImgTag(<<105, 99, 111, 110, 115, 47, 109, 105, 115, 99, 47, 102, 111,
        108, 100, 101, 114, 46, 115, 118, 103>>, <<49, 52>>) >>,
    \* line 37: U+1F4CB -> 'icons/misc/checklist.svg', width/height 14
        << <<128203>>, ImgTag(<<105, 99, 111, 110, 115, 47, 109, 105, 115, 99, 47, 99, 104, 101,
        99, 107, 108, 105, 115, 116, 46, 115, 118, 103>>, <<49, 52>>) >>,
    \* line 39: U+1F9EE -> 'icons/misc/calculator.svg', width/height 14
        << <<129518>>, ImgTag(<<105, 99, 111, 110, 115, 47, 109, 105, 115, 99, 47, 99, 97, 108,
        99, 117, 108, 97, 116, 111, 114, 46, 115, 118, 103>>, <<49, 52>>) >>,
    \* line 41: U+1F3AF -> 'icons/misc/gameplay.svg', width/height 14
        << <<127919>>, ImgTag(<<105, 99, 111, 110, 115, 47, 109, 105, 115, 99, 47, 103, 97, 109,
        101, 112, 108, 97, 121, 46, 115, 118, 103>>, <<49, 52>>) >>,
    \* line 43: U+2694 U+FE0F -> 'icons/misc/combat.svg', width/height 14
        << <<9876, 65039>>, ImgTag(<<105, 99, 111, 110, 115, 47, 109, 105, 115, 99, 47, 99, 111,
        109, 98, 97, 116, 46, 115, 118, 103>>, <<49, 52>>) >>,
    \* line 47: U+270F U+FE0F -> 'icons/actions/pencil.svg', width/height 14
        << <<9999, 65039>>, ImgTag(<<105, 99, 111, 110, 115, 47, 97, 99, 116, 105, 111, 110,
        115, 47, 112, 101, 110, 99, 105, 108, 46, 115, 118, 103>>, <<49, 52>>) >>,
    \* line 49: U+1F5D1 U+FE0F -> 'icons/actions/trash.svg', width/height 14
        << <<128465, 65039>>, ImgTag(<<105, 99, 111, 110, 115, 47, 97, 99, 116, 105, 111, 110,
        115, 47, 116, 114, 97, 115, 104, 46, 115, 118, 103>>, <<49, 52>>) >>,
    \* line 51: U+2728 -> 'icons/misc/sparkles.svg', width/height 14
        << <<10024>>, ImgTag(<<105, 99, 111, 110, 115, 47, 109, 105, 115, 99, 47, 115, 112, 97,
        114, 107, 108, 101, 115, 46, 115, 118, 103>>, <<49, 52>>) >>,
    \* line 53: U+1F4CD -> 'icons/story/location.svg', width/height 14
        << <<128205>>, ImgTag(<<105, 99, 111, 110, 115, 47, 115, 116, 111, 114, 121, 47, 108,
        111, 99, 97, 116, 105, 111, 110, 46, 115, 118, 103>>, <<49, 52>>) >>,
    \* line 55: U+1F465 -> 'icons/misc/user.svg', width/height 14
        << <<128101>>, ImgTag(<<105, 99, 111, 110, 115, 47, 109, 105, 115, 99, 47, 117, 115,
        101, 114, 46, 115, 118, 103>>, <<49, 52>>) >>,
    \* line 57: U+23F1 U+FE0F -> 'icons/misc/calendar.svg', width/height 14
        << <<9201, 65039>>, ImgTag(<<105, 99, 111, 110, 115, 47, 109, 105, 115, 99, 47, 99, 97,
        108, 101, 110, 100, 97, 114, 46, 115, 118, 103>>, <<49, 52>>) >>,
    \* line 59: U+1F4AD -> 'icons/misc/thought-bubble.svg', width/height 14
        << <<128173>>, ImgTag(<<105, 99, 111, 110, 115, 47, 109, 105, 115, 99, 47, 116, 104,
        111, 117, 103, 104, 116, 45, 98, 117, 98, 98, 108, 101, 46, 115, 118, 103>>, <<49, 52>>)
        >>,
    \* line 61: U+2795 -> 'icons/actions/add.svg', width/height 14
        << <<10133>>, ImgTag(<<105, 99, 111, 110, 115, 47, 97, 99, 116, 105, 111, 110, 115, 47,
        97, 100, 100, 46, 115, 118, 103>>, <<49, 52>>) >>,
    \* line 63: U+2796 -> 'icons/misc/subtract.svg', width/height 14
        << <<10134>>, ImgTag(<<105, 99, 111, 110, 115, 47, 109, 105, 115, 99, 47, 115, 117, 98,
        116, 114, 97, 99, 116, 46, 115, 118, 103>>, <<49, 52>>) >>,
    \* line 65: U+2696 U+FE0F -> 'icons/misc/scales-balance.svg', width/height 16
        << <<9878, 65039>>, ImgTag(<<105, 99, 111, 110, 115, 47, 109, 105, 115, 99, 47, 115, 99,
        97, 108, 101, 115, 45, 98, 97, 108, 97, 110, 99, 101, 46, 115, 118, 103>>, <<49, 54>>)
        >>,
    \* line 67: U+1F5A5 U+FE0F -> 'icons/misc/ui.svg', width/height 14
        << <<128421, 65039>>, ImgTag(<<105, 99, 111, 110, 115, 47, 109, 105, 115, 99, 47, 117,
        105, 46, 115, 118, 103>>, <<49, 52>>) >>,
    \* line 69: U+269B U+FE0F -> 'icons/misc/physics.svg', width/height 14
        << <<9883, 65039>>, ImgTag(<<105, 99, 111, 110, 115, 47, 109, 105, 115, 99, 47, 112,
        104, 121, 115, 105, 99, 115, 46, 115, 118, 103>>, <<49, 52>>) >>
    >>
\* r"icon: '\u2699\ufe0f'"
IconRegex == <<105, 99, 111, 110, 58, 32, 39, 9881, 65039, 39>>
\* r"icon: '<img src=\"icons/navigation/mechanics.svg\" alt=\"\" width=\"14\" height=\"14\" style=\"vertical-align: middle;\">'"
IconTemplate == <<105, 99, 111, 110, 58, 32, 39, 60, 105, 109, 103, 32, 115, 114, 99, 61, 92,
    34, 105, 99, 111, 110, 115, 47, 110, 97, 118, 105, 103, 97, 116, 105, 111, 110, 47, 109,
    101, 99, 104, 97, 110, 105, 99, 115, 46, 115, 118, 103, 92, 34, 32, 97, 108, 116, 61, 92,
    34, 92, 34, 32, 119, 105, 100, 116, 104, 61, 92, 34, 49, 52, 92, 34, 32, 104, 101, 105, 103,
    104, 116, 61, 92, 34, 49, 52, 92, 34, 32, 115, 116, 121, 108, 101, 61, 92, 34, 118, 101,
    114, 116, 105, 99, 97, 108, 45, 97, 108, 105, 103, 110, 58, 32, 109, 105, 100, 100, 108,
    101, 59, 92, 34, 62, 39>>
\* r"mechanic: '\u2699\ufe0f Mechanics'"
MechanicRegex == <<109, 101, 99, 104, 97, 110, 105, 99, 58, 32, 39, 9881, 65039, 32, 77, 101,
    99, 104, 97, 110, 105, 99, 115, 39>>
\* r"mechanic: '<img src=\"icons/navigation/mechanics.svg\" alt=\"\" width=\"14\" height=\"14\" style=\"vertical-align: middle;\"> Mechanics'"
MechanicTemplate == <<109, 101, 99, 104, 97, 110, 105, 99, 58, 32, 39, 60, 105, 109, 103, 32,
    115, 114, 99, 61, 92, 34, 105, 99, 111, 110, 115, 47, 110, 97, 118, 105, 103, 97, 116, 105,
    111, 110, 47, 109, 101, 99, 104, 97, 110, 105, 99, 115, 46, 115, 118, 103, 92, 34, 32, 97,
    108, 116, 61, 92, 34, 92, 34, 32, 119, 105, 100, 116, 104, 61, 92, 34, 49, 52, 92, 34, 32,
    104, 101, 105, 103, 104, 116, 61, 92, 34, 49, 52, 92, 34, 32, 115, 116, 121, 108, 101, 61,
    92, 34, 118, 101, 114, 116, 105, 99, 97, 108, 45, 97, 108, 105, 103, 110, 58, 32, 109, 105,
    100, 100, 108, 101, 59, 92, 34, 62, 32, 77, 101, 99, 104, 97, 110, 105, 99, 115, 39>>
\* r": '\u2699\ufe0f Instance</span>'"
InstanceRegex == <<58, 32, 39, 9881, 65039, 32, 73, 110, 115, 116, 97, 110, 99, 101, 60, 47,
    115, 112, 97, 110, 62, 39>>
\* r": '<img src=\"icons/navigation/mechanics.svg\" alt=\"\" width=\"14\" height=\"14\" style=\"vertical-align: middle;\"> Instance</span>'"
InstanceTemplate == <<58, 32, 39, 60, 105, 109, 103, 32, 115, 114, 99, 61, 92, 34, 105, 99, 111,
    110, 115, 47, 110, 97, 118, 105, 103, 97, 116, 105, 111, 110, 47, 109, 101, 99, 104, 97,
    110, 105, 99, 115, 46, 115, 118, 103, 92, 34, 32, 97, 108, 116, 61, 92, 34, 92, 34, 32, 119,
    105, 100, 116, 104, 61, 92, 34, 49, 52, 92, 34, 32, 104, 101, 105, 103, 104, 116, 61, 92,
    34, 49, 52, 92, 34, 32, 115, 116, 121, 108, 101, 61, 92, 34, 118, 101, 114, 116, 105, 99,
    97, 108, 45, 97, 108, 105, 103, 110, 58, 32, 109, 105, 100, 100, 108, 101, 59, 92, 34, 62,
    32, 73, 110, 115, 116, 97, 110, 99, 101, 60, 47, 115, 112, 97, 110, 62, 39>>
\* r"const typeIcon = cls\.classType === 'character' \? '\U0001f3ad' : '\u2699\ufe0f';"
TypeIconRegex == <<99, 111, 110, 115, 116, 32, 116, 121, 112, 101, 73, 99, 111, 110, 32, 61, 32,
    99, 108, 115, 92, 46, 99, 108, 97, 115, 115, 84, 121, 112, 101, 32, 61, 61, 61, 32, 39, 99,
    104, 97, 114, 97, 99, 116, 101, 114, 39, 32, 92, 63, 32, 39, 127917, 39, 32, 58, 32, 39,
    9881, 65039, 39, 59>>
\* The template with the mask left out of its first branch.
TypeIconTemplateBothBranches ==
    Replace(<<99, 111, 110, 115, 116, 32, 116, 121, 112, 101, 73, 99, 111, 110, 32, 61,
        32, 99, 108, 115, 46, 99, 108, 97, 115, 115, 84, 121, 112, 101, 32, 61, 61, 61, 32, 39, 99,
        104, 97, 114, 97, 99, 116, 101, 114, 39, 32, 63, 32, 39, 127917, 39, 32, 58, 32, 39, 60,
        105, 109, 103, 32, 115, 114, 99, 61, 92, 34, 105, 99, 111, 110, 115, 47, 110, 97, 118, 105,
        103, 97, 116, 105, 111, 110, 47, 109, 101, 99, 104, 97, 110, 105, 99, 115, 46, 115, 118,
        103, 92, 34, 32, 97, 108, 116, 61, 92, 34, 92, 34, 32, 119, 105, 100, 116, 104, 61, 92, 34,
        49, 52, 92, 34, 32, 104, 101, 105, 103, 104, 116, 61, 92, 34, 49, 52, 92, 34, 32, 115, 116,
        121, 108, 101, 61, 92, 34, 118, 101, 114, 116, 105, 99, 97, 108, 45, 97, 108, 105, 103, 110,
        58, 32, 109, 105, 100, 100, 108, 101, 59, 92, 34, 62, 39, 59>>, <<127917>>, <<>>)
\* r"const typeIcon = cls.classType === 'character' ? '\U0001f3ad' : '<img src=\"icons/navigation/mechanics.svg\" alt=\"\" width=\"14\" height=\"14\" style=\"vertical-align: middle;\">';"
TypeIconTemplate == <<99, 111, 110, 115, 116, 32, 116, 121, 112, 101, 73, 99, 111, 110, 32, 61,
    32, 99, 108, 115, 46, 99, 108, 97, 115, 115, 84, 121, 112, 101, 32, 61, 61, 61, 32, 39, 99,
    104, 97, 114, 97, 99, 116, 101, 114, 39, 32, 63, 32, 39, 127917, 39, 32, 58, 32, 39, 60,
    105, 109, 103, 32, 115, 114, 99, 61, 92, 34, 105, 99, 111, 110, 115, 47, 110, 97, 118, 105,
    103, 97, 116, 105, 111, 110, 47, 109, 101, 99, 104, 97, 110, 105, 99, 115, 46, 115, 118,
    103, 92, 34, 32, 97, 108, 116, 61, 92, 34, 92, 34, 32, 119, 105, 100, 116, 104, 61, 92, 34,
    49, 52, 92, 34, 32, 104, 101, 105, 103, 104, 116, 61, 92, 34, 49, 52, 92, 34, 32, 115, 116,
    121, 108, 101, 61, 92, 34, 118, 101, 114, 116, 105, 99, 97, 108, 45, 97, 108, 105, 103, 110,
    58, 32, 109, 105, 100, 100, 108, 101, 59, 92, 34, 62, 39, 59>>
\* '\u2699\ufe0f'
GearEmoji == <<9881, 65039>>
\* The markup with the symbol as its alt text.
GearSvgAltEmoji ==
    Replace(<<60, 105, 109, 103, 32, 115, 114, 99, 61, 34, 105, 99, 111, 110, 115, 47, 110, 97,
        118, 105, 103, 97, 116, 105, 111, 110, 47, 109, 101, 99, 104, 97, 110, 105, 99, 115, 46,
        115, 118, 103, 34, 32, 97, 108, 116, 61, 34, 34, 32, 119, 105, 100, 116, 104, 61, 34, 49,
        52, 34, 32, 104, 101, 105, 103, 104, 116, 61, 34, 49, 52, 34, 32, 115, 116, 121, 108, 101,
        61, 34, 118, 101, 114, 116, 105, 99, 97, 108, 45, 97, 108, 105, 103, 110, 58, 32, 109, 105,
        100, 100, 108, 101, 59, 34, 62>>,
            <<97, 108, 116, 61, 34, 34>>, <<97, 108, 116, 61, 34, 9881, 65039, 34>>)
\* '<img src="icons/navigation/mechanics.svg" alt="" width="14" height="14" style="vertical-align: middle;">'
GearSvg == <<60, 105, 109, 103, 32, 115, 114, 99, 61, 34, 105, 99, 111, 110, 115, 47, 110, 97,
    118, 105, 103, 97, 116, 105, 111, 110, 47, 109, 101, 99, 104, 97, 110, 105, 99, 115, 46,
    115, 118, 103, 34, 32, 97, 108, 116, 61, 34, 34, 32, 119, 105, 100, 116, 104, 61, 34, 49,
    52, 34, 32, 104, 101, 105, 103, 104, 116, 61, 34, 49, 52, 34, 32, 115, 116, 121, 108, 101,
    61, 34, 118, 101, 114, 116, 105, 99, 97, 108, 45, 97, 108, 105, 103, 110, 58, 32, 109, 105,
    100, 100, 108, 101, 59, 34, 62>>

\* The symbols the script keeps, lines 17-18 and 121.
Excluded == { <<127917>>, <<128165>>, <<9888, 65039>>, <<9989>>, <<128308>>, <<128992>>,
              <<128993>>, <<128994>>, <<129351>>, <<129352>>, <<129353>> }

----------------------------------------------------------------------------
(* Input documents                                                         *)

\* 'icon: '\u2699\ufe0f''
IconLiteral == <<105, 99, 111, 110, 58, 32, 39, 9881, 65039, 39>>
\* 'mechanic: '\u2699\ufe0f Mechanics''
MechanicLiteral == <<109, 101, 99, 104, 97, 110, 105, 99, 58, 32, 39, 9881, 65039, 32, 77, 101,
    99, 104, 97, 110, 105, 99, 115, 39>>
\* ': '\u2699\ufe0f Instance</span>''
InstanceLiteral == <<58, 32, 39, 9881, 65039, 32, 73, 110, 115, 116, 97, 110, 99, 101, 60, 47,
    115, 112, 97, 110, 62, 39>>
\* 'const typeIcon = cls.classType === 'character' ? '\U0001f3ad' : '\u2699\ufe0f';'
TypeIconLiteral == <<99, 111, 110, 115, 116, 32, 116, 121, 112, 101, 73, 99, 111, 110, 32, 61,
    32, 99, 108, 115, 46, 99, 108, 97, 115, 115, 84, 121, 112, 101, 32, 61, 61, 61, 32, 39, 99,
    104, 97, 114, 97, 99, 116, 101, 114, 39, 32, 63, 32, 39, 127917, 39, 32, 58, 32, 39, 9881,
    65039, 39, 59>>
\* 'icon: ''
IconKey == <<105, 99, 111, 110, 58, 32, 39>>
\* '''
Quote == <<39>>
\* 'const typeIcon = cls.classType === 'character' ? '\U0001f3ad' : ''
TypeIconHead == <<99, 111, 110, 115, 116, 32, 116, 121, 112, 101, 73, 99, 111, 110, 32, 61, 32,
    99, 108, 115, 46, 99, 108, 97, 115, 115, 84, 121, 112, 101, 32, 61, 61, 61, 32, 39, 99, 104,
    97, 114, 97, 99, 116, 101, 114, 39, 32, 63, 32, 39, 127917, 39, 32, 58, 32, 39>>
\* '';'
TypeIconTail == <<39, 59>>
\* '<img src="icons/misc/chart-line-up.svg" alt="" width="14" height="14" style="vertical-align: middle;">'
ChartUpSvg == <<60, 105, 109, 103, 32, 115, 114, 99, 61, 34, 105, 99, 111, 110, 115, 47, 109,
    105, 115, 99, 47, 99, 104, 97, 114, 116, 45, 108, 105, 110, 101, 45, 117, 112, 46, 115, 118,
    103, 34, 32, 97, 108, 116, 61, 34, 34, 32, 119, 105, 100, 116, 104, 61, 34, 49, 52, 34, 32,
    104, 101, 105, 103, 104, 116, 61, 34, 49, 52, 34, 32, 115, 116, 121, 108, 101, 61, 34, 118,
    101, 114, 116, 105, 99, 97, 108, 45, 97, 108, 105, 103, 110, 58, 32, 109, 105, 100, 100,
    108, 101, 59, 34, 62>>

\* Pieces around the gear symbol: the symbol, the literals of the four
\* re.sub rules, the first of them in parts, the mask.
GearPieces == << GearEmoji, IconKey, Quote, MechanicLiteral, InstanceLiteral,
                 TypeIconLiteral, <<127917>> >>

\* Pieces around the table: two of its symbols with the same markup, that
\* markup already in the text, the first code point of a symbol of the table
\* and of the warning sign, the variation selector that ends both, and a
\* carriage return.
TablePieces == << <<128202>>, <<128200>>, ChartUpSvg, <<9876>>, <<9888>>, <<65039>>,
                  <<13>> >>

RECURSIVE Concat(_, _, _)
Concat(pieces, f, k) ==
    IF k > Len(f) THEN <<>> ELSE pieces[f[k]] \o Concat(pieces, f, k + 1)

Docs(pieces) ==
    { Concat(pieces, f, 1) :
        f \in UNION { [1..n -> 1..Len(pieces)] : n \in 0..MaxPieces } }

\* Pieces that put the typeIcon statement after text the generic rules and
\* the catch-all rewrite: the statement, two symbols of the table, a gear
\* symbol.
MixedPieces == << TypeIconLiteral, <<128202>>, <<9876, 65039>>, GearEmoji >>

Documents == Docs(GearPieces) \cup Docs(TablePieces) \cup Docs(MixedPieces)

\* Files that are not UTF-8: a byte that opens no sequence, a sequence cut
\* short, a continuation byte on its own.
Undecodable == { <<255>>, <<120, 240, 159>>, <<128>> }

----------------------------------------------------------------------------
(* The script                                                              *)

VARIABLES
    exists,            \* script.js exists
    disk,              \* the bytes of script.js
    pc,                \* the statement the script is at
    content,           \* line 13
    original_length,   \* line 15
    new_length,        \* line 117
    stdout,            \* what print has written, in order
    failure,           \* the statement that raised, "" if none
    second,            \* this is the second run of the script on the file
    before,            \* the bytes of script.js when this run started
    input              \* content as read by this run

vars == <<exists, disk, pc, content, original_length, new_length, stdout, failure,
          second, before, input>>

Line(kind, emoji, a, b) == [kind |-> kind, emoji |-> emoji, a |-> a, b |-> b]

Init ==
    /\ \/ exists = TRUE /\ disk \in { Encode(d) : d \in Documents } \cup Undecodable
       \/ exists = FALSE /\ disk = <<>>
    /\ pc = "read"
    /\ content = <<>>
    /\ original_length = 0
    /\ new_length = 0
    /\ stdout = <<>>
    /\ failure = ""
    /\ second = FALSE
    /\ before = disk
    /\ input = <<>>

\* Lines 11-15: open for reading, read, take the length.
Read ==
    /\ pc = "read"
    /\ exists
    /\ Decodable(disk)
    /\ LET text == ReadText(disk)
       IN  /\ content' = text
           /\ input' = text
           /\ original_length' = Len(text)
    /\ stdout' = Append(stdout, Line("Reading", <<>>, 0, 0))
    /\ pc' = "replace"
    /\ UNCHANGED <<exists, disk, new_length, failure, second, before>>

\* Lines 12-13 raise: FileNotFoundError or UnicodeDecodeError.
ReadFail ==
    /\ pc = "read"
    /\ ~exists \/ ~Decodable(disk)
    /\ stdout' = Append(stdout, Line("Reading", <<>>, 0, 0))
    /\ failure' = "read"
    /\ pc' = "failed"
    /\ UNCHANGED <<exists, disk, content, original_length, new_length, second, before, input>>

\* Lines 73-77, from entry k of the table on.
RECURSIVE SimpleReplacements(_, _, _)
SimpleReplacements(c, out, k) ==
    IF k > Len(replacements) THEN [content |-> c, stdout |-> out]
    ELSE LET emoji == replacements[k][1]
             svg   == replacements[k][2]
             count == Count(c, emoji)
         IN  IF count > 0
             THEN SimpleReplacements(Replace(c, emoji, svg),
                                     Append(out, Line("Replaced", emoji, count, 0)), k + 1)
             ELSE SimpleReplacements(c, out, k + 1)

\* The loop saving the buffer to the file as soon as it is done.
ApplySimpleWriteThrough ==
    /\ pc = "replace"
    /\ LET r == SimpleReplacements(content, stdout, 1)
       IN  /\ content' = r.content
           /\ stdout' = r.stdout
           /\ disk' = WriteText(r.content)
    /\ pc' = "icon"
    /\ UNCHANGED <<exists, original_length, new_length, failure, second, before, input>>

\* Lines 73-77: the loop over the table.
ApplySimple ==
    /\ pc = "replace"
    /\ LET r == SimpleReplacements(content, stdout, 1)
       IN  /\ content' = r.content
           /\ stdout' = r.stdout
    /\ pc' = "icon"
    /\ UNCHANGED <<exists, disk, original_length, new_length, failure, second, before, input>>

\* Lines 81-85.
IconRule ==
    /\ pc = "icon"
    /\ content' = ReSub(IconRegex, IconTemplate, content)
    /\ pc' = "mechanic"
    /\ UNCHANGED <<exists, disk, original_length, new_length, stdout, failure, second,
                   before, input>>

\* Lines 87-91.
MechanicRule ==
    /\ pc = "mechanic"
    /\ content' = ReSub(MechanicRegex, MechanicTemplate, content)
    /\ pc' = "instance"
    /\ UNCHANGED <<exists, disk, original_length, new_length, stdout, failure, second,
                   before, input>>

\* Lines 93-97.
InstanceRule ==
    /\ pc = "instance"
    /\ content' = ReSub(InstanceRegex, InstanceTemplate, content)
    /\ pc' = "typeIcon"
    /\ UNCHANGED <<exists, disk, original_length, new_length, stdout, failure, second,
                   before, input>>

\* Lines 100-104.
TypeIconRule ==
    /\ pc = "typeIcon"
    /\ content' = ReSub(TypeIconRegex, TypeIconTemplate, content)
    /\ pc' = "remaining"
    /\ UNCHANGED <<exists, disk, original_length, new_length, stdout, failure, second,
                   before, input>>

\* The catch-all without its print.
ReplaceRemainingSilent ==
    /\ pc = "remaining"
    /\ content' = Replace(content, GearEmoji, GearSvg)
    /\ pc' = "open"
    /\ UNCHANGED <<exists, disk, original_length, new_length, stdout, failure, second,
                   before, input>>

\* The catch-all guarded by remaining_mechanics > 1.
ReplaceRemainingOffByOne ==
    /\ pc = "remaining"
    /\ LET remaining_mechanics == Count(content, GearEmoji)
       IN  IF remaining_mechanics > 1
           THEN /\ content' = Replace(content, GearEmoji, GearSvg)
                /\ stdout' = Append(stdout, Line("Remaining", GearEmoji,
                                                 remaining_mechanics, 0))
           ELSE UNCHANGED <<content, stdout>>
    /\ pc' = "open"
    /\ UNCHANGED <<exists, disk, original_length, new_length, failure, second, before, input>>

\* Lines 107-110.
ReplaceRemaining ==
    /\ pc = "remaining"
    /\ LET remaining_mechanics == Count(content, GearEmoji)
       IN  IF remaining_mechanics > 0
           THEN /\ content' = Replace(content, GearEmoji, GearSvg)
                /\ stdout' = Append(stdout, Line("Remaining", GearEmoji,
                                                 remaining_mechanics, 0))
           ELSE UNCHANGED <<content, stdout>>
    /\ pc' = "open"
    /\ UNCHANGED <<exists, disk, original_length, new_length, failure, second, before, input>>

\* Lines 113-114: open(..., 'w') truncates the file.
OpenForWriting ==
    /\ pc = "open"
    /\ stdout' = Append(stdout, Line("Writing", <<>>, 0, 0))
    /\ disk' = <<>>
    /\ pc' = "write"
    /\ UNCHANGED <<exists, content, original_length, new_length, failure, second, before,
                   input>>

\* Line 114 raises (PermissionError): the file is not opened.
OpenFail ==
    /\ pc = "open"
    /\ stdout' = Append(stdout, Line("Writing", <<>>, 0, 0))
    /\ failure' = "open"
    /\ pc' = "failed"
    /\ UNCHANGED <<exists, disk, content, original_length, new_length, second, before, input>>

\* Line 115 and the close at the end of the with block: the buffer reaches
\* the disk.
WriteBack ==
    /\ pc = "write"
    /\ disk' = WriteText(content)
    /\ pc' = "report"
    /\ UNCHANGED <<exists, content, original_length, new_length, stdout, failure, second,
                   before, input>>

\* Line 115 or the close raises (OSError, disk full): the first n bytes of
\* the buffer have reached the disk, not all of them.
WriteFail ==
    /\ pc = "write"
    /\ LET buffer == WriteText(content)
       IN  \E n \in 0..MaxPartialWrite :
               /\ n < Len(buffer)
               /\ disk' = SubSeq(buffer, 1, n)
    /\ failure' = "write"
    /\ pc' = "failed"
    /\ UNCHANGED <<exists, content, original_length, new_length, stdout, second, before, input>>

\* Lines 117-121.
Report ==
    /\ pc = "report"
    /\ new_length' = Len(content)
    /\ stdout' = stdout \o << Line("Done", <<>>, original_length, Len(content)),
                              Line("Difference", <<>>, Len(content) - original_length, 0),
                              Line("Complete", <<>>, 0, 0),
                              Line("Skipped", <<>>, 0, 0) >>
    /\ pc' = "done"
    /\ UNCHANGED <<exists, disk, content, original_length, failure, second, before, input>>

\* The script is run once more on the file it has written.
RunAgain ==
    /\ pc = "done"
    /\ ~second
    /\ second' = TRUE
    /\ before' = disk
    /\ pc' = "read"
    /\ content' = <<>>
    /\ input' = <<>>
    /\ original_length' = 0
    /\ new_length' = 0
    /\ stdout' = <<>>
    /\ UNCHANGED <<exists, disk, failure>>

Next ==
    \/ Read
    \/ ReadFail
    \/ ApplySimple
    \/ IconRule
    \/ MechanicRule
    \/ InstanceRule
    \/ TypeIconRule
    \/ ReplaceRemaining
    \/ OpenForWriting
    \/ OpenFail
    \/ WriteBack
    \/ WriteFail
    \/ Report
    \/ RunAgain

Spec == Init /\ [][Next]_vars

----------------------------------------------------------------------------
(* Properties                                                              *)

\* The run is over: the buffer was transformed, written back and reported.
Written == pc = "done"

Symbols == { replacements[k][1] : k \in 1..Len(replacements) }

\* The lines of stdout that report a count for symbol e.
CountLines(e) ==
    { i \in 1..Len(stdout) : stdout[i].kind \in {"Replaced", "Remaining"}
                             /\ stdout[i].emoji = e }

\* The occurrences in s of the symbols of the table that share the markup of entry k.
RECURSIVE SharedCount(_, _, _)
SharedCount(s, k, j) ==
    IF j > Len(replacements) THEN 0
    ELSE (IF replacements[j][2] = replacements[k][2] THEN Count(s, replacements[j][1]) ELSE 0)
         + SharedCount(s, k, j + 1)

\* The gear symbols of s inside a literal of one of the four re.sub rules.
Constrained(s) ==
    Count(s, IconLiteral) + Count(s, MechanicLiteral) + Count(s, InstanceLiteral)
    + Count(s, TypeIconLiteral)

\* C1: a second run of the script on the file the first run wrote changes
\* nothing: no rule changes the buffer it read, and the file written is the
\* file read.
C1_Idempotent ==
    second =>
        /\ pc \in {"replace", "icon", "mechanic", "instance", "typeIcon", "remaining",
                   "open", "write", "report", "done"} => content = input
        /\ pc = "done" => disk = before

\* C1 witness: the second run is done on a file into which the first run
\* wrote the gear markup and a markup of the table.
C1_Witness ==
    /\ second
    /\ pc = "done"
    /\ Count(content, GearSvg) > 0 \/ Count(content, ChartUpSvg) > 0

\* C2, as amended: in the output no symbol of the table is left, and the
\* occurrences of each markup of the table are those of the input plus the
\* occurrences in the input of every symbol of the table with that markup.
C2_CompleteShared ==
    Written =>
        \A k \in 1..Len(replacements) :
            /\ Count(content, replacements[k][1]) = 0
            /\ Count(content, replacements[k][2])
                 = Count(input, replacements[k][2]) + SharedCount(input, k, 1)

\* C2 witness: the input held two symbols with the same markup and that
\* markup itself.
C2_Witness ==
    /\ Written
    /\ Count(input, <<128202>>) > 0
    /\ Count(input, <<128200>>) > 0
    /\ Count(input, ChartUpSvg) > 0

\* C2 as stated: for every pair of the table, the occurrences of its markup
\* grow by exactly the occurrences of its own symbol.
C2_CompletePerPair ==
    Written =>
        \A k \in 1..Len(replacements) :
            /\ Count(content, replacements[k][1]) = 0
            /\ Count(content, replacements[k][2])
                 = Count(input, replacements[k][2]) + Count(input, replacements[k][1])

\* C3 as stated: after a failed run the file holds its complete original
\* content or the complete transformed content.
C3_AtomicWrite ==
    pc = "failed" => disk = before \/ disk = WriteText(content)

\* C4: the file is as the run found it until every rule has been applied and
\* the file is opened for writing, and so it is after a read that failed.
C4_NoMutationBeforeWrite ==
    /\ pc \in {"read", "replace", "icon", "mechanic", "instance", "typeIcon",
               "remaining", "open"} => disk = before
    /\ pc = "failed" /\ failure \in {"read", "open"} => disk = before

\* C4 witness: the read failed on a file that is not UTF-8.
C4_Witness ==
    /\ pc = "failed"
    /\ failure = "read"
    /\ exists
    /\ Len(disk) > 0

\* C5: once the catch-all has run the buffer holds no gear symbol, and the
\* file written is that buffer.
C5_NoGearLeft ==
    /\ pc \in {"open", "write", "report", "done"} => Count(content, GearEmoji) = 0
    /\ pc \in {"report", "done"} => disk = WriteText(content)

\* C5 witness: the input held gear symbols, one at least outside the
\* literals of the re.sub rules, and the output is written.
C5_Witness ==
    /\ Written
    /\ Constrained(input) > 0
    /\ Count(input, GearEmoji) > Constrained(input)

\* C6: every excluded symbol occurs in the output as often as in the input.
C6_ExcludedKept ==
    Written => \A x \in Excluded : Count(content, x) = Count(input, x)

\* C6 witness: the input held the typeIcon statement with its mask and a
\* mask next to a gear symbol, or a warning sign next to a symbol of the table.
C6_Witness ==
    /\ Written
    /\ \/ /\ Count(input, TypeIconLiteral) > 0
          /\ Count(input, <<127917>> \o GearEmoji) > 0
       \/ Count(input, <<9888, 65039, 128202>>) > 0

\* C7 as stated: each literal of the three constrained rules is in the
\* output with its gear symbol replaced by the markup of the catch-all.
C7_ContextMarkup ==
    Written =>
        \A l \in {IconLiteral, MechanicLiteral, InstanceLiteral} :
            Count(content, Replace(l, GearEmoji, GearSvg)) >= Count(input, l)

\* C8 as stated: each typeIcon statement of the input is in the output with
\* the gear symbol of its second branch replaced by the markup of that symbol
\* and all its other text unchanged, and no mask is lost or added, whatever
\* the earlier rules did to the buffer.
C8_TypeIconKept ==
    Written =>
        /\ Count(content, TypeIconHead \o GearSvg \o TypeIconTail)
             >= Count(input, TypeIconLiteral)
        /\ Count(content, <<127917>>) = Count(input, <<127917>>)

\* C9 as stated: the sizes reported are the byte lengths of the file before
\* and after the run.
C9_ByteSizes ==
    Written => original_length = Len(before) /\ new_length = Len(disk)

\* C10, as amended: every symbol of the table that occurs in the input has
\* one count line, with its occurrences; the gear symbol has one, with the
\* occurrences the catch-all replaced (those outside the literals of the four
\* re.sub rules), when there are any; no other count line is printed.
C10_CountsReported ==
    Written =>
        /\ \A e \in Symbols :
              IF Count(input, e) > 0
              THEN /\ Cardinality(CountLines(e)) = 1
                   /\ \A i \in CountLines(e) : stdout[i].a = Count(input, e)
              ELSE CountLines(e) = {}
        /\ IF Count(input, GearEmoji) > Constrained(input)
           THEN /\ Cardinality(CountLines(GearEmoji)) = 1
                /\ \A i \in CountLines(GearEmoji) :
                      stdout[i].a = Count(input, GearEmoji) - Constrained(input)
           ELSE CountLines(GearEmoji) = {}
        /\ \A i \in 1..Len(stdout) :
              stdout[i].kind \in {"Replaced", "Remaining"}
                  => stdout[i].emoji \in Symbols \cup {GearEmoji}

\* C10 witness: the input held a gear symbol in a literal of a re.sub rule
\* and one outside, and the catch-all reported the one outside.
C10_Witness ==
    /\ Written
    /\ Constrained(input) > 0
    /\ Count(input, GearEmoji) = Constrained(input) + 1
    /\ CountLines(GearEmoji) # {}

\* C10 as stated: the gear symbol too has a count line with all its
\* occurrences that the pass replaced.
C10_AllCountsReported ==
    Written =>
        \A e \in Symbols \cup {GearEmoji} :
            IF Count(input, e) > 0
            THEN /\ Cardinality(CountLines(e)) = 1
                 /\ \A i \in CountLines(e) : stdout[i].a = Count(input, e)
            ELSE CountLines(e) = {}

=============================================================================
